---- MODULE Spec2Model ----
(***************************************************************************)
(* A model of the macOS port of Project Hamster:                           *)
(*   - MacOSConfigStore (src/src/hamster/lib/configuration_macos.py), the  *)
(*     plist-backed settings store;                                        *)
(*   - Storage (src/src/hamster/client/client_native.py), the native       *)
(*     storage client, a facade over the record store hamster.storage.db.  *)
(* The record store is not part of the sources at hand: its operations     *)
(* (the db_... definitions) are modelled from the specification.           *)
(***************************************************************************)
EXTENDS Integers, Sequences, FiniteSets, TLC

VARIABLES
    plist,        \* the settings file: [exists, readable, content]
    settings,     \* MacOSConfigStore._settings, a dict
    changed,      \* the 'changed' emissions of the last store operation
    conf_last,    \* the last store operation: [op, key, value, ret]
    last_set,     \* history: per key, the value of the latest set() since construction
    bound,        \* the on_changed handlers bind() connected, in connect order
    props,        \* the bound property of each target object
    db,           \* Storage._db, the record store
    handlers,     \* the handlers connected to the signals of Storage, in connect order
    reactions,    \* what each of these handlers does when it runs
    last,         \* the last call on Storage: its arguments, outcome and notifications
    prev_tag_ids, \* history: the get_tag_ids call right before the last call, if any
    request       \* the arguments of the get_facts call a caller is about to make

conf_vars == <<plist, settings, changed, conf_last, last_set, bound, props>>

storage_vars == <<db, handlers, reactions, last, prev_tag_ids, request>>

vars == <<plist, settings, changed, conf_last, last_set, bound, props,
          db, handlers, reactions, last, prev_tag_ids, request>>

(***************************************************************************)
(* Python values.  A value carries its type, so that values of different   *)
(* types can be compared and type() can be computed.                       *)
(***************************************************************************)
int(n) == [type |-> "int", int |-> n, str |-> ""]
str(s) == [type |-> "str", int |-> 0, str |-> s]
None == [type |-> "NoneType", int |-> 0, str |-> ""]

\* The values a caller passes to set(): integers, strings (the empty one
\* included) and None.
SetValues == {int(270), int(330), str(""), str("/tmp/test"), None}

\* The two keys of the schema and one key outside it.
Keys == {"day-start-minutes", "last-report-folder", "window-width"}

(***************************************************************************)
(* Python dicts: functions whose domain is the set of keys present.        *)
(***************************************************************************)
EmptyDict == [k \in {} |-> None]

dict_get(d, key) == IF key \in DOMAIN d THEN d[key] ELSE None

dict_put(d, key, value) ==
    [k \in DOMAIN d \cup {key} |-> IF k = key THEN value ELSE d[k]]

_defaults ==
    [k \in {"day-start-minutes", "last-report-folder"} |->
        IF k = "day-start-minutes" THEN int(330) ELSE str("")]

(***************************************************************************)
(* The settings file.                                                      *)
(***************************************************************************)
NoFile == [exists |-> FALSE, readable |-> FALSE, content |-> EmptyDict]

File(content) == [exists |-> TRUE, readable |-> TRUE, content |-> content]

\* A file plistlib.load raises on; content is what a parser had read of it
\* when it failed.
BrokenFile(content) == [exists |-> TRUE, readable |-> FALSE, content |-> content]

\* The dicts a file can hold at construction time.
FileDicts ==
    LET D == {EmptyDict,
              [k \in {"day-start-minutes"} |-> int(270)],
              [k \in {"last-report-folder"} |-> str("/tmp/test")],
              [k \in {"window-width"} |-> int(270)],
              [k \in {"day-start-minutes", "window-width"} |->
                  IF k = "window-width" THEN str("/tmp/test") ELSE int(270)],
              [k \in Keys |-> IF k = "last-report-folder" THEN str("") ELSE int(330)]}
    IN D

InitialFiles ==
    {NoFile} \cup {File(d) : d \in FileDicts} \cup {BrokenFile(d) : d \in FileDicts}

\* _load_settings with the except branch keeping what had been read
_load_settings_keeps_partial(f) ==
    IF f.exists
    THEN [k \in DOMAIN f.content \cup DOMAIN _defaults |->
              IF k \in DOMAIN f.content THEN f.content[k] ELSE _defaults[k]]
    ELSE _defaults

\* _load_settings with settings.update(self._defaults): the defaults win
_load_settings_defaults_win(f) ==
    IF f.exists /\ f.readable
    THEN [k \in DOMAIN f.content \cup DOMAIN _defaults |->
              IF k \in DOMAIN _defaults THEN _defaults[k] ELSE f.content[k]]
    ELSE _defaults

_load_settings(f) ==
    IF f.exists
    THEN IF f.readable
         THEN \* merge with defaults to handle any missing keys
              [k \in DOMAIN f.content \cup DOMAIN _defaults |->
                  IF k \in DOMAIN f.content THEN f.content[k] ELSE _defaults[k]]
         ELSE \* except Exception: return self._defaults.copy()
              _defaults
    ELSE _defaults

\* plistlib.dump raises TypeError on a value it cannot represent
plist_dumpable(d) == \A k \in DOMAIN d : d[k] # None

\* _save_settings dumping the keys of the schema only
_save_settings_known_keys(f, d, io) ==
    IF io = "open_fails" THEN f
    ELSE IF io = "ok" /\ \A k \in DOMAIN d : d[k] # None
         THEN File([k \in DOMAIN d \cap DOMAIN _defaults |-> d[k]])
    ELSE BrokenFile(EmptyDict)

\* what the file system does to a write: the file cannot be opened, or the
\* write fails once it is open (the disk is full), or all goes well
IOOutcomes == {"ok", "open_fails", "write_fails"}

\* _save_settings: open(path, 'wb') may fail and leaves the file as it was;
\* once opened the file is truncated, and a dump that raises (on a value it
\* cannot represent, or on a failing write) leaves a file that does not
\* parse.  Every exception is logged and swallowed.
_save_settings(f, d, io) ==
    IF io = "open_fails" THEN f
    ELSE IF io = "ok" /\ plist_dumpable(d) THEN File(d)
    ELSE BrokenFile(EmptyDict)

\* whether _save_settings wrote the file (no exception logged)
saved(d, io) == io = "ok" /\ plist_dumpable(d)

\* get, on the settings map d
get_from(d, key, default) ==
    LET value == dict_get(d, key)
    IN  IF value = None
        THEN IF default # None THEN default ELSE dict_get(_defaults, key)
        ELSE value

\* get with the test "if not value" in place of "if value is None"
get_falsy(key, default) ==
    LET value == dict_get(settings, key)
        falsy(v) == v = None \/ v = int(0) \/ v = str("")
    IN  IF falsy(value)
        THEN IF default # None THEN default ELSE dict_get(_defaults, key)
        ELSE value

\* get with the compiled-in default tried before the default of the caller
get_compiled_first(key, default) ==
    LET value == dict_get(settings, key)
    IN  IF value = None
        THEN IF dict_get(_defaults, key) # None THEN dict_get(_defaults, key) ELSE default
        ELSE value

get(key, default) == get_from(settings, key, default)

\* isinstance(value, type(default_value)) for the types modelled
isinstance(value, t) == value.type = t

\* the type check without the exemption of the empty-string default
type_mismatch_every_key(key, value) ==
    /\ key \in DOMAIN _defaults
    /\ value.type # _defaults[key].type

\* the type-mismatch warning of set()
type_mismatch(key, value) ==
    /\ key \in DOMAIN _defaults
    /\ ~isinstance(value, _defaults[key].type)
    /\ _defaults[key] # str("")

\* dt.time(hours, minutes) raises ValueError outside 0..23, 0..59
time(hours, minutes) ==
    IF hours \in 0..23 /\ minutes \in 0..59
    THEN [ok |-> TRUE, hours |-> hours, minutes |-> minutes]
    ELSE [ok |-> FALSE, hours |-> 0, minutes |-> 0]

\* the day_start property with divmod(day_start_minutes, 100)
day_start_by_hundred ==
    LET day_start_minutes == get("day-start-minutes", None)
    IN  IF day_start_minutes.type # "int"
        THEN [ok |-> FALSE, hours |-> 0, minutes |-> 0]
        ELSE time(day_start_minutes.int \div 100, day_start_minutes.int % 100)

\* the day_start property; divmod on a value that is no number raises
day_start ==
    LET day_start_minutes == get("day-start-minutes", None)
    IN  IF day_start_minutes.type # "int"
        THEN [ok |-> FALSE, hours |-> 0, minutes |-> 0]
        ELSE time(day_start_minutes.int \div 60, day_start_minutes.int % 60)

NoOp ==
    [op |-> "none", key |-> "", value |-> None, ret |-> FALSE, warned |-> FALSE,
     written |-> FALSE, target |-> "", result |-> None]

Unset == [type |-> "unset", int |-> 0, str |-> ""]

\* the objects whose property bind() is given
Targets == {"a", "b"}

MaxBindings == 2

NoProps == [t \in Targets |-> Unset]

\* MacOSConfigStore.__init__: load the settings of the file found; the new
\* store has no handler connected
__init__ ==
    /\ UNCHANGED storage_vars
    /\ settings' = _load_settings(plist)
    /\ plist' = plist
    /\ changed' = <<>>
    /\ conf_last' = [NoOp EXCEPT !.op = "__init__"]
    /\ last_set' = [k \in Keys |-> Unset]
    /\ bound' = <<>>
    /\ props' = props

\* on_changed connected to every key: the test changed_key == key left out
on_changed_any_key(b, p, changed_key, new_value) == [p EXCEPT ![b.target] = new_value]

\* the handler bind() connects: obj.set_property(prop, new_value) when the
\* key changed is the key bound
on_changed(b, p, changed_key, new_value) ==
    IF changed_key = b.key THEN [p EXCEPT ![b.target] = new_value] ELSE p

\* self.emit('changed', key, value): the handlers run in connect order
RECURSIVE emit_changed(_, _, _, _)
emit_changed(handlers_, p, key, value) ==
    IF handlers_ = <<>> THEN p
    ELSE emit_changed(Tail(handlers_), on_changed(Head(handlers_), p, key, value),
                      key, value)

\* the emission made before the value is stored and the file written
emitted_first(before, after) == before

\* what a handler of 'changed' finds when it runs: the emission is the last
\* statement of set(), after the store and the save
emitted_at(before, after) == after

\* set with the type check enforced: a mismatch is refused
set_strict(key, value, io) ==
    LET stored == IF type_mismatch(key, value) THEN settings
                  ELSE dict_put(settings, key, value)
        file == IF type_mismatch(key, value) THEN plist
                ELSE _save_settings(plist, stored, io)
    IN  /\ UNCHANGED storage_vars
        /\ settings' = stored
        /\ plist' = file
        /\ changed' = IF type_mismatch(key, value) THEN <<>>
                      ELSE <<[key |-> key, value |-> value, settings |-> stored,
                              plist |-> file]>>
        /\ conf_last' = [NoOp EXCEPT !.op = "set", !.key = key, !.value = value,
                                     !.ret = ~type_mismatch(key, value),
                                     !.warned = type_mismatch(key, value),
                                     !.written = saved(stored, io)]
        /\ last_set' = [last_set EXCEPT ![key] = value]
        /\ props' = IF type_mismatch(key, value) THEN props
                    ELSE emit_changed(bound, props, key, value)
        /\ bound' = bound

set(key, value, io) ==
    LET stored == dict_put(settings, key, value)
        file == _save_settings(plist, stored, io)
    IN  /\ UNCHANGED storage_vars
        /\ settings' = stored
        /\ plist' = file
        /\ changed' = <<[key |-> key, value |-> value,
                         settings |-> emitted_at(settings, stored),
                         plist |-> emitted_at(plist, file)]>>
        /\ conf_last' = [NoOp EXCEPT !.op = "set", !.key = key, !.value = value,
                                     !.ret = TRUE,
                                     !.warned = type_mismatch(key, value),
                                     !.written = saved(stored, io)]
        /\ last_set' = [last_set EXCEPT ![key] = value]
        /\ props' = emit_changed(bound, props, key, value)
        /\ bound' = bound

\* a call of get, as an operation of the store
get_called(key, default) ==
    /\ UNCHANGED storage_vars
    /\ changed' = <<>>
    /\ conf_last' = [NoOp EXCEPT !.op = "get", !.key = key, !.value = default,
                                 !.result = get(key, default)]
    /\ UNCHANGED <<settings, plist, last_set, bound, props>>

\* bind: push the current value into the property, then connect on_changed
bind(key, target) ==
    /\ Len(bound) < MaxBindings
    /\ UNCHANGED storage_vars
    /\ props' = [props EXCEPT ![target] = get(key, None)]
    /\ bound' = Append(bound, [key |-> key, target |-> target])
    /\ changed' = <<>>
    /\ conf_last' = [NoOp EXCEPT !.op = "bind", !.key = key, !.target = target,
                                 !.result = get(key, None)]
    /\ UNCHANGED <<settings, plist, last_set>>

\* the property of a bound object set by its owner: bind connects nothing
\* to the object, so the store does not hear of it
set_property(target, value) ==
    /\ UNCHANGED storage_vars
    /\ props' = [props EXCEPT ![target] = value]
    /\ changed' = <<>>
    /\ conf_last' = [NoOp EXCEPT !.op = "set_property", !.target = target,
                                 !.value = value]
    /\ UNCHANGED <<settings, plist, last_set, bound>>

(***************************************************************************)
(* Text: a Python str as a sequence of characters.                         *)
(***************************************************************************)
\* str.lower(), character by character
lower_char(c) == IF c = "W" THEN "w" ELSE IF c = "U" THEN "u" ELSE c

lower(s) == [i \in 1..Len(s) |-> lower_char(s[i])]

\* needle in hay
contains(hay, needle) ==
    \E i \in 0..(Len(hay) - Len(needle)) :
        \A j \in 1..Len(needle) : hay[i + j] = needle[j]

RECURSIVE SetToSeq(_)
SetToSeq(S) ==
    IF S = {} THEN <<>>
    ELSE LET x == CHOOSE y \in S : TRUE IN <<x>> \o SetToSeq(S \ {x})

\* the largest key of a table, 0 for an empty one
MaxKey(f) == IF DOMAIN f = {} THEN 0 ELSE CHOOSE m \in DOMAIN f : \A k \in DOMAIN f : k <= m

(***************************************************************************)
(* Facts.  start_time and end_time are instants of Times; NoTime stands    *)
(* for None.  An empty activity stands for an unset one.                   *)
(***************************************************************************)
MaxFacts == 2

MaxHandlers == 2

NoTime == 0

Times == {1, 2}

Fact(activity, start_time, end_time) ==
    [activity |-> activity, category |-> <<>>, description |-> <<>>, tags |-> {},
     start_time |-> start_time, end_time |-> end_time]

\* a fact with its category, description and tags
Text(fact, category, description, tags) ==
    [fact EXCEPT !.category = category, !.description = description, !.tags = tags]

NoFact == Fact(<<>>, NoTime, NoTime)

(***************************************************************************)
(* The record store, hamster.storage.db.Storage.                           *)
(***************************************************************************)
Uncategorized == -1

EmptyTable == [k \in {} |-> 0]

EmptyDb ==
    [facts |-> EmptyTable, next_fact_id |-> 1,
     activities |-> EmptyTable, categories |-> EmptyTable, tags |-> EmptyTable]

table_put(t, id, row) == [k \in DOMAIN t \cup {id} |-> IF k = id THEN row ELSE t[k]]

table_del(t, id) == [k \in DOMAIN t \ {id} |-> t[k]]

\* the result of a record-store call: the store after it, what it returns,
\* the error it raises ("" for none) with its reason, and the callbacks it
\* invokes once the change is made
DbResult(d, ret, error, reason, callbacks) ==
    [db |-> d, ret |-> ret, error |-> error, reason |-> reason, callbacks |-> callbacks]

db_get_fact(d, id) == IF id \in DOMAIN d.facts THEN d.facts[id] ELSE NoFact

\* the reason a fact is refused for, "" when it is accepted; default_day
\* only shortens the message
db_check_reason(fact, default_day) ==
    IF fact.start_time = NoTime THEN "Missing start time"
    ELSE IF fact.activity = <<>> THEN "Missing activity"
    ELSE IF fact.end_time # NoTime /\ fact.end_time < fact.start_time
         THEN IF default_day = NoTime
              THEN "Duration would be negative (with dates)"
              ELSE "Duration would be negative"
         ELSE ""

db_check_fact(d, fact, default_day) ==
    LET reason == db_check_reason(fact, default_day)
    IN  DbResult(d, 0, IF reason = "" THEN "" ELSE "FactError", reason, <<>>)

\* tags by label, case-insensitively
tag_id_of(tags, label) ==
    LET found == {id \in DOMAIN tags : lower(tags[id].name) = lower(label)}
    IN  IF found = {} THEN 0 ELSE CHOOSE id \in found : TRUE

\* the tags table after the labels are looked up: a soft-deleted tag is
\* resurrected, a missing one created
RECURSIVE tags_with(_, _)
tags_with(tags, labels) ==
    IF labels = <<>> THEN tags
    ELSE LET id == tag_id_of(tags, Head(labels))
             next == IF id = 0
                     THEN table_put(tags, MaxKey(tags) + 1,
                                    [name |-> Head(labels), autocomplete |-> TRUE,
                                     deleted |-> FALSE])
                     ELSE table_put(tags, id, [tags[id] EXCEPT !.deleted = FALSE])
         IN  tags_with(next, Tail(labels))

db_get_tag_ids(d, labels) ==
    LET tags == tags_with(d.tags, labels)
        rows == [i \in 1..Len(labels) |->
                    LET id == tag_id_of(tags, labels[i])
                    IN  [id |-> id, name |-> tags[id].name,
                         autocomplete |-> tags[id].autocomplete]]
    IN  DbResult([d EXCEPT !.tags = tags], rows, "", "",
                 IF tags = d.tags THEN <<>> ELSE <<"tags_changed">>)

category_id_of(categories, name) ==
    LET found == {id \in DOMAIN categories : lower(categories[id]) = lower(name)}
    IN  IF found = {} THEN 0 ELSE CHOOSE id \in found : TRUE

activity_id_of(activities, name, category_id) ==
    LET found == {id \in DOMAIN activities :
                     /\ lower(activities[id].name) = lower(name)
                     /\ activities[id].category_id = category_id}
    IN  IF found = {} THEN 0 ELSE CHOOSE id \in found : TRUE

\* the categories and activities after the activity of a fact is looked up,
\* created where missing
categories_with(categories, name) ==
    IF name = <<>> \/ category_id_of(categories, name) # 0 THEN categories
    ELSE table_put(categories, MaxKey(categories) + 1, name)

activities_with(activities, name, category_id) ==
    IF activity_id_of(activities, name, category_id) # 0 THEN activities
    ELSE table_put(activities, MaxKey(activities) + 1,
                   [name |-> name, category_id |-> category_id])

\* insert without the check: the row, the activity and the tags it names
db_insert_fact(d, fact) ==
    LET categories == categories_with(d.categories, fact.category)
        category_id == IF fact.category = <<>> THEN Uncategorized
                       ELSE category_id_of(categories, fact.category)
        activities == activities_with(d.activities, fact.activity, category_id)
        tags == tags_with(d.tags, SetToSeq(fact.tags))
    IN  [d EXCEPT !.facts = table_put(d.facts, d.next_fact_id, fact),
                  !.next_fact_id = d.next_fact_id + 1,
                  !.categories = categories,
                  !.activities = activities,
                  !.tags = tags]

change_callbacks(d, e) ==
    <<"facts_changed">>
    \o (IF e.activities # d.activities \/ e.categories # d.categories
        THEN <<"activities_changed">> ELSE <<>>)
    \o (IF e.tags # d.tags THEN <<"tags_changed">> ELSE <<>>)

db_add_fact(d, fact) ==
    LET reason == db_check_reason(fact, NoTime)
        e == db_insert_fact(d, fact)
    IN  IF reason # "" THEN DbResult(d, 0, "FactError", reason, <<>>)
        ELSE DbResult(e, d.next_fact_id, "", "", change_callbacks(d, e))

db_remove_fact(d, id) ==
    IF id \in DOMAIN d.facts
    THEN DbResult([d EXCEPT !.facts = table_del(d.facts, id)], 0, "", "", <<"facts_changed">>)
    ELSE DbResult(d, 0, "", "", <<>>)

\* remove, then insert under a new identifier, in one transaction
db_update_fact(d, id, fact) ==
    LET reason == db_check_reason(fact, NoTime)
        removed == [d EXCEPT !.facts = table_del(d.facts, id)]
        e == db_insert_fact(removed, fact)
    IN  IF reason # "" THEN DbResult(d, 0, "FactError", reason, <<>>)
        ELSE DbResult(e, d.next_fact_id, "", "", change_callbacks(d, e))

(***************************************************************************)
(* Storage, the native client: signals.                                    *)
(***************************************************************************)
\* Storage.__gsignals__
Topics == {"tags-changed", "facts-changed", "activities-changed", "toggle-called"}

\* the signal each callback emits
_on_tags_changed == "tags-changed"

_on_facts_changed_as_tags == "tags-changed"

_on_facts_changed == "facts-changed"

_on_activities_changed == "activities-changed"

\* Storage.__init__: the callbacks of the record store are the _on_... methods
callback_signal(callback) ==
    IF callback = "tags_changed" THEN _on_tags_changed
    ELSE IF callback = "facts_changed" THEN _on_facts_changed
    ELSE _on_activities_changed

emitted_by(callbacks) == [i \in 1..Len(callbacks) |-> callback_signal(callbacks[i])]

\* what a connected handler does when it runs: it returns, it raises, or it
\* calls remove_fact on the oldest fact of the record store
Reactions == {"returns", "raises", "removes"}

\* the run of emissions: the record store after it, the deliveries made in
\* order, and the number of the next emission
Delivered(d, log, n) == [db |-> d, log |-> log, next |-> n]

\* an emission that ends at the first handler that raises
emit_stops_at(raised) == ~raised

\* an exception of a handler is reported and the emission goes on
emit_goes_on(raised) == TRUE

\* a callback that emits only when no emission is under way
emits_outermost_only(level) == level = 1

\* the _on_..._changed callbacks emit whenever the record store calls them
emits(level) == TRUE

RECURSIVE emit(_, _, _, _, _, _)
RECURSIVE delivered_by(_, _, _, _)
\* Storage.remove_fact called by a handler, while an emission is under way
reentered(d, level, n) ==
    IF DOMAIN d.facts = {} THEN Delivered(d, <<>>, n)
    ELSE LET oldest == CHOOSE id \in DOMAIN d.facts : \A j \in DOMAIN d.facts : id <= j
             r == db_remove_fact(d, oldest)
         IN  delivered_by(emitted_by(r.callbacks), r.db, level + 1, n)

\* GObject.emit, from handler i on: the handlers connected to the signal run
\* once each, in connect order; each sees the record store as it is then.
\* e is the number of this emission, n the number of the next one.
emit(topic, i, d, level, e, n) ==
    IF i > Len(handlers) THEN Delivered(d, <<>>, n)
    ELSE IF handlers[i] # topic THEN emit(topic, i + 1, d, level, e, n)
    ELSE LET raised == reactions[i] = "raises"
             entry == [handler |-> i, topic |-> topic, queryable |-> DOMAIN d.facts,
                       level |-> level, emission |-> e, raised |-> raised]
             nested == IF reactions[i] = "removes" THEN reentered(d, level, n)
                       ELSE Delivered(d, <<>>, n)
             rest == IF emit_goes_on(raised)
                     THEN emit(topic, i + 1, nested.db, level, e, nested.next)
                     ELSE Delivered(nested.db, <<>>, nested.next)
         IN  Delivered(rest.db, <<entry>> \o nested.log \o rest.log, rest.next)

\* the emissions the callbacks of one record store call make, in order
delivered_by(topics, d, level, n) ==
    IF topics = <<>> THEN Delivered(d, <<>>, n)
    ELSE LET first == IF emits(level) THEN emit(Head(topics), 1, d, level, n, n + 1)
                      ELSE Delivered(d, <<>>, n)
             rest == delivered_by(Tail(topics), first.db, level, first.next)
         IN  Delivered(rest.db, first.log \o rest.log, rest.next)

\* the record store once the handlers of the callbacks of r have run
after(r) == delivered_by(emitted_by(r.callbacks), r.db, 1, 1).db

NoCall ==
    [op |-> "none", id |-> 0, arg |-> {}, given |-> NoFact, fact |-> NoFact,
     default_day |-> NoTime, labels |-> <<>>, at |-> NoTime, before |-> {},
     outcome |-> "ok", reason |-> "", ret |-> 0, rows |-> <<>>, db_calls |-> <<>>,
     emitted |-> <<>>, delivered |-> <<>>]

\* the record of a call that reached the record store with result r
Called(call, r) ==
    [call EXCEPT !.outcome = IF r.error = "" THEN "ok" ELSE r.error,
                 !.reason = r.reason,
                 !.emitted = emitted_by(r.callbacks),
                 !.delivered = delivered_by(emitted_by(r.callbacks), r.db, 1, 1).log]

NoTagCall == [labels |-> <<>>, rows |-> <<>>, called |-> FALSE, tags |-> EmptyTable]

\* GObject.connect
connect(topic, reaction) ==
    /\ Len(handlers) < MaxHandlers
    /\ handlers' = Append(handlers, topic)
    /\ reactions' = Append(reactions, reaction)
    /\ last' = [NoCall EXCEPT !.op = "connect"]
    /\ prev_tag_ids' = NoTagCall
    /\ UNCHANGED <<conf_vars, db, request>>

\* toggle: self.emit("toggle-called")
toggle ==
    /\ LET run == emit("toggle-called", 1, db, 1, 1, 2)
       IN  /\ db' = run.db
           /\ last' = [NoCall EXCEPT !.op = "toggle", !.emitted = <<"toggle-called">>,
                                     !.delivered = run.log]
    /\ prev_tag_ids' = NoTagCall
    /\ UNCHANGED <<conf_vars, handlers, reactions, request>>

(***************************************************************************)
(* Storage: facts.                                                         *)
(***************************************************************************)
get_fact(id) == db_get_fact(db, id)

\* if not fact.start_time
check_fact_missing_start(fact) == fact.start_time = NoTime

\* except FactError as e, with the error dropped
check_fact_swallow(r) == [r EXCEPT !.error = "", !.reason = ""]

\* except FactError as e: raise e
check_fact_except(r) == r

check_fact(fact, default_day) ==
    /\ IF check_fact_missing_start(fact)
       THEN last' = [NoCall EXCEPT !.op = "check_fact", !.given = fact, !.fact = fact,
                                   !.default_day = default_day,
                                   !.outcome = "FactError",
                                   !.reason = "Missing start time"]
       ELSE LET r == check_fact_except(db_check_fact(db, fact, default_day))
            IN  last' = Called([NoCall EXCEPT !.op = "check_fact", !.given = fact,
                                              !.fact = fact,
                                              !.default_day = default_day,
                                              !.db_calls = <<"check_fact">>], r)
    /\ prev_tag_ids' = NoTagCall
    /\ UNCHANGED <<conf_vars, db, handlers, reactions, request>>

\* assert fact.activity, dropped
add_fact_no_assert(fact) == TRUE

\* assert fact.activity (an interpreter that runs assert statements)
add_fact_assert(fact) == fact.activity # <<>>

\* the fact handed on with its start time left as given
add_fact_keeps_start_time(fact, clock) == fact

\* if not fact.start_time: fact.start_time = dt.datetime.now()
add_fact_start_time(fact, clock) ==
    IF fact.start_time = NoTime THEN [fact EXCEPT !.start_time = clock] ELSE fact

\* clock is what dt.datetime.now() returns if it is called
add_fact(fact, temporary_activity, clock) ==
    /\ db.next_fact_id <= MaxFacts
    /\ IF ~add_fact_assert(fact)
       THEN /\ db' = db
            /\ last' = [NoCall EXCEPT !.op = "add_fact", !.given = fact, !.fact = fact,
                                      !.before = DOMAIN db.facts,
                                      !.outcome = "AssertionError",
                                      !.reason = "missing activity"]
       ELSE LET started == add_fact_start_time(fact, clock)
                r == db_add_fact(db, started)
            IN  /\ db' = after(r)
                /\ last' = Called([NoCall EXCEPT !.op = "add_fact", !.given = fact,
                                                 !.fact = started, !.ret = r.ret,
                                                 !.before = DOMAIN db.facts,
                                                 !.at = IF fact.start_time = NoTime
                                                        THEN clock ELSE NoTime,
                                                 !.db_calls = <<"add_fact">>], r)
    /\ prev_tag_ids' = NoTagCall
    /\ UNCHANGED <<conf_vars, handlers, reactions, request>>

remove_fact(fact_id) ==
    /\ LET r == db_remove_fact(db, fact_id)
       IN  /\ db' = after(r)
           /\ last' = Called([NoCall EXCEPT !.op = "remove_fact", !.id = fact_id,
                                            !.db_calls = <<"remove_fact">>], r)
    /\ prev_tag_ids' = NoTagCall
    /\ UNCHANGED <<conf_vars, handlers, reactions, request>>

\* return fact_id, the identifier the caller passed
update_fact_old_id(fact_id, new_id) == fact_id

\* new_id = self._db.update_fact(fact_id, fact); return new_id
update_fact_returns(fact_id, new_id) == new_id

update_fact(fact_id, fact, temporary_activity) ==
    /\ db.next_fact_id <= MaxFacts
    /\ LET r == db_update_fact(db, fact_id, fact)
       IN  /\ db' = after(r)
           /\ last' = Called([NoCall EXCEPT !.op = "update_fact", !.id = fact_id,
                                            !.before = DOMAIN db.facts,
                                            !.given = fact, !.fact = fact,
                                            !.ret = update_fact_returns(fact_id, r.ret),
                                            !.db_calls = <<"update_fact">>], r)
    /\ prev_tag_ids' = NoTagCall
    /\ UNCHANGED <<conf_vars, handlers, reactions, request>>

(***************************************************************************)
(* Tags.                                                                   *)
(***************************************************************************)
Labels == {<<"w">>, <<"W">>, <<"u">>}

\* the rows of the live tags, by identifier
RECURSIVE tag_rows(_, _)
tag_rows(tags, ids) ==
    IF ids = {} THEN <<>>
    ELSE LET id == CHOOSE i \in ids : \A j \in ids : i <= j
         IN  <<[id |-> id, name |-> tags[id].name, autocomplete |-> tags[id].autocomplete]>>
             \o tag_rows(tags, ids \ {id})

db_get_tags(d, only_autocomplete) ==
    DbResult(d, tag_rows(d.tags, {id \in DOMAIN d.tags :
                                     /\ ~d.tags[id].deleted
                                     /\ only_autocomplete => d.tags[id].autocomplete}),
             "", "", <<>>)

\* the labels given become the autocomplete set: they are created or
\* resurrected, and every other tag loses the flag
db_update_autocomplete_tags(d, labels) ==
    LET with == tags_with(d.tags, labels)
        wanted == {tag_id_of(with, labels[i]) : i \in 1..Len(labels)}
        tags == [id \in DOMAIN with |-> [with[id] EXCEPT !.autocomplete = id \in wanted]]
    IN  DbResult([d EXCEPT !.tags = tags], 0, "", "",
                 IF tags = d.tags THEN <<>> ELSE <<"tags_changed">>)

\* the tags listed with self._db.get_tags, nothing looked up
get_tag_ids_lists(d, tags) == db_get_tags(d, FALSE)

\* self._db.get_tag_ids(tags), each row as a dict of id, name, autocomplete
get_tag_ids_rows(d, tags) == db_get_tag_ids(d, tags)

get_tag_ids(tags) ==
    /\ LET r == get_tag_ids_rows(db, tags)
       IN  /\ db' = after(r)
           /\ last' = Called([NoCall EXCEPT !.op = "get_tag_ids", !.labels = tags,
                                            !.rows = r.ret,
                                            !.db_calls = <<"get_tag_ids">>], r)
    /\ prev_tag_ids' = IF last.op = "get_tag_ids"
                       THEN [labels |-> last.labels, rows |-> last.rows, called |-> TRUE,
                             tags |-> db.tags]
                       ELSE NoTagCall
    /\ UNCHANGED <<conf_vars, handlers, reactions, request>>

update_autocomplete_tags(tags) ==
    /\ LET r == db_update_autocomplete_tags(db, tags)
       IN  /\ db' = after(r)
           /\ last' = Called([NoCall EXCEPT !.op = "update_autocomplete_tags",
                                            !.labels = tags,
                                            !.db_calls = <<"update_autocomplete_tags">>], r)
    /\ prev_tag_ids' = NoTagCall
    /\ UNCHANGED <<conf_vars, handlers, reactions, request>>

(***************************************************************************)
(* Categories and activities.                                              *)
(***************************************************************************)
MaxActivities == 2

MaxCategories == 2

ActivityNames == {<<"w">>, <<"u">>}

CategoryNames == {<<"w">>, <<"p">>}

\* an optional argument: {} for None, {x} for the value x
Absent == {}

Some(x) == {x}

value_of(arg) == CHOOSE x \in arg : TRUE

RECURSIVE activity_rows(_, _, _)
activity_rows(activities, categories, ids) ==
    IF ids = {} THEN <<>>
    ELSE LET id == CHOOSE i \in ids : \A j \in ids : i <= j
             a == activities[id]
         IN  <<[id |-> id, name |-> a.name, category_id |-> a.category_id,
                category |-> IF a.category_id \in DOMAIN categories
                             THEN categories[a.category_id] ELSE <<>>]>>
             \o activity_rows(activities, categories, ids \ {id})

\* the activities of a category; the sentinel stands for no category
db_get_category_activities(d, category_id) ==
    DbResult(d, activity_rows(d.activities, d.categories,
                              {id \in DOMAIN d.activities :
                                  d.activities[id].category_id = category_id}),
             "", "", <<>>)

db_add_category(d, name) ==
    LET categories == categories_with(d.categories, name)
    IN  DbResult([d EXCEPT !.categories = categories], category_id_of(categories, name),
                 "", "", IF categories = d.categories THEN <<>> ELSE <<"activities_changed">>)

db_add_activity(d, name, category_id) ==
    LET activities == activities_with(d.activities, name, category_id)
    IN  DbResult([d EXCEPT !.activities = activities],
                 activity_id_of(activities, name, category_id),
                 "", "", IF activities = d.activities THEN <<>> ELSE <<"activities_changed">>)

\* an activity moved into a category that holds one of its name merges into it
moved(activities, id, category_id) ==
    IF activity_id_of(activities, activities[id].name, category_id) \notin {0, id}
    THEN table_del(activities, id)
    ELSE table_put(activities, id, [activities[id] EXCEPT !.category_id = category_id])

db_change_category(d, id, category_id) ==
    IF id \notin DOMAIN d.activities \/ d.activities[id].category_id = category_id
    THEN DbResult(d, 0, "", "", <<>>)
    ELSE DbResult([d EXCEPT !.activities = moved(d.activities, id, category_id)], 1,
                  "", "", <<"activities_changed">>)

db_remove_activity(d, id) ==
    IF id \notin DOMAIN d.activities THEN DbResult(d, 0, "", "", <<>>)
    ELSE DbResult([d EXCEPT !.activities = table_del(d.activities, id)], 0, "", "",
                  <<"activities_changed">>)

RECURSIVE uncategorize(_, _)
uncategorize(activities, ids) ==
    IF ids = {} THEN activities
    ELSE LET id == CHOOSE i \in ids : \A j \in ids : i <= j
         IN  uncategorize(moved(activities, id, Uncategorized), ids \ {id})

\* the activities of a removed category become uncategorized
db_remove_category(d, id) ==
    IF id \notin DOMAIN d.categories THEN DbResult(d, 0, "", "", <<>>)
    ELSE DbResult([d EXCEPT !.categories = table_del(d.categories, id),
                            !.activities =
                                uncategorize(d.activities,
                                             {a \in DOMAIN d.activities :
                                                 d.activities[a].category_id = id})],
                  0, "", "", <<"activities_changed">>)

admin(op, r) ==
    /\ db' = after(r)
    /\ last' = Called([NoCall EXCEPT !.op = op, !.ret = r.ret, !.db_calls = <<op>>], r)
    /\ prev_tag_ids' = NoTagCall
    /\ UNCHANGED <<conf_vars, handlers, reactions, request>>

add_category(name) ==
    /\ MaxKey(db.categories) < MaxCategories
    /\ admin("add_category", db_add_category(db, name))

add_activity(name, category_id) ==
    /\ MaxKey(db.activities) < MaxActivities
    /\ admin("add_activity", db_add_activity(db, name, category_id))

change_category(id, category_id) ==
    admin("change_category", db_change_category(db, id, category_id))

remove_activity(id) == admin("remove_activity", db_remove_activity(db, id))

remove_category(id) == admin("remove_category", db_remove_category(db, id))

\* category_id = category_id or 0
category_id_or_zero(category_id) ==
    IF category_id = Absent \/ category_id = Some(0) THEN 0 ELSE value_of(category_id)

\* category_id = category_id or -1
category_id_or(category_id) ==
    IF category_id = Absent \/ category_id = Some(0) THEN -1 ELSE value_of(category_id)

\* each row as a dict of id, name, category_id, category (a['category'] or '')
get_category_activities(category_id) ==
    /\ LET r == db_get_category_activities(db, category_id_or(category_id))
       IN  /\ db' = after(r)
           /\ last' = Called([NoCall EXCEPT !.op = "get_category_activities",
                                            !.arg = category_id, !.rows = r.ret,
                                            !.db_calls = <<"get_category_activities">>], r)
    /\ prev_tag_ids' = NoTagCall
    /\ UNCHANGED <<conf_vars, handlers, reactions, request>>

(***************************************************************************)
(* Searching facts.                                                        *)
(***************************************************************************)
MaxQueryLen == 5

QueryChars == {"w", "W", "p", "u", " ", ","}

\* the pieces of s between the occurrences of sep, empty ones included
RECURSIVE split(_, _)
split(s, sep) ==
    IF \A i \in 1..Len(s) : s[i] # sep THEN <<s>>
    ELSE LET i == CHOOSE k \in 1..Len(s) :
                      s[k] = sep /\ \A j \in 1..(k - 1) : s[j] # sep
         IN  <<SubSeq(s, 1, i - 1)>> \o split(SubSeq(s, i + 1, Len(s)), sep)

\* the whitespace-separated terms of a group
words(s) == SelectSeq(split(s, " "), LAMBDA w : w # <<>>)

\* the predicate of a query: its OR-groups, each the sequence of its AND-terms
parse(query_text) ==
    LET groups == split(query_text, ",")
    IN  [g \in 1..Len(groups) |-> words(groups[g])]

\* the texts of a fact the filter applies to
searched(fact) == {fact.activity, fact.category, fact.description} \cup fact.tags

term_matches(fact, term) == \E text \in searched(fact) : contains(lower(text), lower(term))

matches(predicate, fact) ==
    \E g \in 1..Len(predicate) :
        \A t \in 1..Len(predicate[g]) : term_matches(fact, predicate[g][t])

\* dt.Range.from_start_end
from_start_end(start, end) == [start |-> start, end |-> end]

\* a fact with no end time is ongoing, a range with no end is open-ended
intersects(fact, range) ==
    /\ range.end = NoTime \/ fact.start_time <= range.end
    /\ fact.end_time = NoTime \/ range.start <= fact.end_time

RECURSIVE ascending(_)
ascending(ids) ==
    IF ids = {} THEN <<>>
    ELSE LET id == CHOOSE i \in ids : \A j \in ids : i <= j
         IN  <<id>> \o ascending(ids \ {id})

\* the identifiers of the facts of the range that match, in order
db_get_facts(d, range, search_terms) ==
    DbResult(d, ascending({id \in DOMAIN d.facts :
                              /\ intersects(d.facts[id], range)
                              /\ matches(parse(search_terms), d.facts[id])}),
             "", "", <<>>)

\* self._db.get_facts(range) with the search terms left out
get_facts_unfiltered(d, start, end, search_terms) ==
    db_get_facts(d, from_start_end(start, end), <<>>)

\* range = dt.Range.from_start_end(start, end)
\* self._db.get_facts(range, search_terms=search_terms)
get_facts_rows(d, start, end, search_terms) ==
    db_get_facts(d, from_start_end(start, end), search_terms)

get_facts(start, end, search_terms) ==
    /\ LET r == get_facts_rows(db, start, end, search_terms)
       IN  /\ db' = after(r)
           /\ last' = Called([NoCall EXCEPT !.op = "get_facts", !.rows = r.ret,
                                            !.db_calls = <<"get_facts">>], r)
    /\ prev_tag_ids' = NoTagCall
    /\ UNCHANGED <<conf_vars, handlers, reactions, request>>

(***************************************************************************)
(* Specifications.                                                         *)
(***************************************************************************)
ConfFresh ==
    /\ plist = NoFile
    /\ settings = _load_settings(NoFile)
    /\ changed = <<>>
    /\ conf_last = [NoOp EXCEPT !.op = "__init__"]
    /\ last_set = [k \in Keys |-> Unset]
    /\ bound = <<>>
    /\ props = NoProps

NoRequest == [start |-> NoTime, end |-> NoTime, search_terms |-> <<>>]

StorageFresh ==
    /\ db = EmptyDb
    /\ handlers = <<>>
    /\ reactions = <<>>
    /\ last = NoCall
    /\ prev_tag_ids = NoTagCall
    /\ request = NoRequest

\* the settings store, constructed over any of the initial files
ConfInit ==
    /\ plist \in InitialFiles
    /\ settings = _load_settings(plist)
    /\ changed = <<>>
    /\ conf_last = [NoOp EXCEPT !.op = "__init__"]
    /\ last_set = [k \in Keys |-> Unset]
    /\ bound = <<>>
    /\ props = NoProps
    /\ StorageFresh

ConfNext ==
    \/ __init__
    \/ \E key \in Keys, value \in SetValues, io \in IOOutcomes : set(key, value, io)

SpecConf == ConfInit /\ [][ConfNext]_vars

\* the settings store with objects bound to it
BindKeys == {"day-start-minutes", "window-width"}

BindValues == {int(270), str(""), None}

BindInit == ConfFresh /\ StorageFresh

BindNext ==
    \/ \E key \in BindKeys, value \in BindValues, io \in {"ok", "open_fails"} :
          set(key, value, io)
    \/ \E key \in BindKeys, default \in {None, int(270)} : get_called(key, default)
    \/ \E key \in BindKeys, target \in Targets : bind(key, target)
    \/ \E target \in Targets : set_property(target, str("/tmp/test"))

SpecBind == BindInit /\ [][BindNext]_vars

\* the start of the day: integers stored under day-start-minutes, within a
\* day and outside it
DayStartMinutes == {int(-1), int(0), int(59), int(270), int(1439), int(1440), int(1500)}

DayStartInit == ConfInit

DayStartNext ==
    \/ __init__
    \/ \E value \in DayStartMinutes, io \in IOOutcomes :
          set("day-start-minutes", value, io)
    \/ \E value \in {str(""), str("/tmp/test")} : set("last-report-folder", value, "ok")

SpecDayStart == DayStartInit /\ [][DayStartNext]_vars

\* the facts a caller passes
FactInputs ==
    {Fact(a, s, e) : a \in {<<>>, <<"w">>}, s \in {NoTime} \cup Times, e \in {NoTime} \cup Times}

\* facts that name a category and a tag as well
TaggedFactInputs ==
    {Text(Fact(a, NoTime, NoTime), <<"p">>, <<>>, {<<"u">>}) : a \in {<<>>, <<"w">>}}

FactsInit == ConfFresh /\ StorageFresh

FactsNext ==
    \/ connect("facts-changed", "returns")
    \/ \E fact \in FactInputs \cup TaggedFactInputs, clock \in Times :
          add_fact(fact, FALSE, clock)
    \/ \E id \in 1..MaxFacts, fact \in FactInputs : update_fact(id, fact, FALSE)
    \/ \E id \in 1..MaxFacts : remove_fact(id)

SpecFacts == FactsInit /\ [][FactsNext]_vars

\* validating facts, and adding them
ValidateNext ==
    \/ \E fact \in FactInputs \cup TaggedFactInputs, day \in {NoTime} \cup Times :
          check_fact(fact, day)
    \/ \E fact \in FactInputs, clock \in Times : add_fact(fact, FALSE, clock)

SpecValidate == FactsInit /\ [][ValidateNext]_vars

\* signals: observers of the four signals, some raising, some calling back
Observers ==
    {<<t, r>> : t \in Topics, r \in {"returns", "raises"}}
    \cup {<<"facts-changed", "removes">>}

SignalsInit == ConfFresh /\ StorageFresh

SignalsNext ==
    \/ \E o \in Observers : connect(o[1], o[2])
    \/ toggle
    \/ add_fact(Fact(<<"w">>, 1, NoTime), FALSE, 1)
    \/ \E id \in 1..MaxFacts : remove_fact(id)
    \/ \E tags \in {<<>>, <<<<"w">>>>} : update_autocomplete_tags(tags)

SpecSignals == SignalsInit /\ [][SignalsNext]_vars

\* tags: the record store opens with tags of earlier sessions
LabelLists ==
    {<<>>} \cup {<<a>> : a \in Labels} \cup {<<a, b>> : a \in Labels, b \in Labels}

Tag(name, autocomplete, deleted) ==
    [name |-> name, autocomplete |-> autocomplete, deleted |-> deleted]

InitialTags ==
    {EmptyTable,
     [id \in {1} |-> Tag(<<"w">>, FALSE, TRUE)],
     [id \in {1, 2} |-> IF id = 1 THEN Tag(<<"u">>, TRUE, FALSE) ELSE Tag(<<"W">>, TRUE, TRUE)]}

TagsInit ==
    /\ ConfFresh
    /\ db \in {[EmptyDb EXCEPT !.tags = t] : t \in InitialTags}
    /\ handlers = <<>>
    /\ reactions = <<>>
    /\ last = NoCall
    /\ prev_tag_ids = NoTagCall
    /\ request = NoRequest

TagsNext ==
    \/ connect("tags-changed", "returns")
    \/ \E tags \in LabelLists : get_tag_ids(tags)
    \/ \E tags \in LabelLists : update_autocomplete_tags(tags)

SpecTags == TagsInit /\ [][TagsNext]_vars

\* categories and activities
CategoryArgs == {Absent} \cup {Some(c) : c \in {Uncategorized} \cup 0..MaxCategories}

ActivitiesInit == ConfFresh /\ StorageFresh

ActivitiesNext ==
    \/ \E name \in CategoryNames : add_category(name)
    \/ \E name \in ActivityNames, c \in {Uncategorized} \cup 1..MaxCategories :
          add_activity(name, c)
    \/ \E id \in 1..MaxActivities, c \in {Uncategorized} \cup 1..MaxCategories :
          change_category(id, c)
    \/ \E id \in 1..MaxActivities : remove_activity(id)
    \/ \E id \in 1..MaxCategories : remove_category(id)
    \/ \E c \in CategoryArgs : get_category_activities(c)

SpecActivities == ActivitiesInit /\ [][ActivitiesNext]_vars

\* searching: a record store that holds facts, and one get_facts call
Corpus ==
    [id \in 1..4 |->
        IF id = 1 THEN Fact(<<"w">>, 1, 1)
        ELSE IF id = 2 THEN Text(Fact(<<"W">>, 1, NoTime), <<"p">>, <<>>, {})
        ELSE IF id = 3 THEN Text(Fact(<<"U">>, 2, 2), <<>>, <<"w", " ", "p">>, {})
        ELSE Text(Fact(<<"p">>, 2, NoTime), <<>>, <<>>, {<<"u", "p">>, <<"U">>})]

Queries == UNION {[1..n -> QueryChars] : n \in 0..MaxQueryLen}

SearchInit ==
    /\ ConfFresh
    /\ db = [EmptyDb EXCEPT !.facts = Corpus, !.next_fact_id = 5]
    /\ handlers = <<>>
    /\ reactions = <<>>
    /\ last = NoCall
    /\ prev_tag_ids = NoTagCall
    /\ request \in [start : Times, end : {NoTime}, search_terms : Queries]
                 \cup [start : {1}, end : {1}, search_terms : Queries]

SearchNext == get_facts(request.start, request.end, request.search_terms)

SpecSearch == SearchInit /\ [][SearchNext]_vars

Init == ConfInit

Next == ConfNext \/ BindNext \/ DayStartNext \/ SignalsNext \/ FactsNext \/ ValidateNext \/ TagsNext \/ ActivitiesNext \/ SearchNext

Spec == Init /\ [][Next]_vars

(***************************************************************************)
(* Properties of the settings store (under SpecConf).                      *)
(***************************************************************************)
Schema == {"day-start-minutes", "last-report-folder"}

\* C1: a store constructed over a missing or unreadable file holds exactly
\* the default set: get("day-start-minutes") is 330, get("last-report-folder")
\* is the empty string, and no key of the unreadable file is present.
C1_DefaultsWhenFileMissingOrUnreadable ==
    (conf_last.op = "__init__" /\ (~plist.exists \/ ~plist.readable)) =>
        /\ DOMAIN settings = Schema
        /\ get("day-start-minutes", None) = int(330)
        /\ get("last-report-folder", None) = str("")
        /\ \A k \in DOMAIN plist.content \ Schema : get(k, None) = None

C1_Witness ==
    /\ conf_last.op = "__init__"
    /\ plist.exists /\ ~plist.readable
    /\ plist.content # EmptyDict
    /\ "window-width" \in DOMAIN plist.content \ DOMAIN settings
    /\ get("day-start-minutes", None) = int(330)

C3_UpdateFactReturnsNewId ==
    (/\ last.op = "update_fact"
     /\ last.id \in last.before
     /\ db_check_reason(last.given, NoTime) = "") =>
        /\ last.outcome = "ok"
        /\ last.ret # last.id
        /\ last.id \notin DOMAIN db.facts
        /\ get_fact(last.id) = NoFact
        /\ last.ret \in DOMAIN db.facts
        /\ get_fact(last.ret) = last.given

C3_Witness ==
    /\ last.op = "update_fact"
    /\ last.id \in last.before
    /\ last.outcome = "ok"
    /\ last.ret # last.id
    /\ get_fact(last.ret) = last.given
    /\ get_fact(last.id) = NoFact
    /\ Cardinality(DOMAIN db.facts) = 1

\* the deliveries of a topic to a handler in the last call
Deliveries(topic, h) ==
    {i \in 1..Len(last.delivered) :
        last.delivered[i].topic = topic /\ last.delivered[i].handler = h}

\* C4: every successful add_fact delivers facts-changed exactly once to
\* each handler connected to it, and at delivery the new fact is queryable
\* under the identifier add_fact returns.
C4_AddFactNotifiesOnce ==
    (last.op = "add_fact" /\ last.outcome = "ok") =>
        \A h \in 1..Len(handlers) :
            handlers[h] = "facts-changed" =>
                /\ Cardinality(Deliveries("facts-changed", h)) = 1
                /\ \A i \in Deliveries("facts-changed", h) :
                      last.ret \in last.delivered[i].queryable
                /\ last.ret \in DOMAIN db.facts

C4_Witness ==
    /\ last.op = "add_fact" /\ last.outcome = "ok"
    /\ Len(handlers) = 2
    /\ Len(last.delivered) = 2
    /\ last.ret = 2
    /\ \A i \in 1..2 : last.delivered[i].handler = i /\ 2 \in last.delivered[i].queryable

\* C7 as stated, for the fallback the code has: add_fact of a fact with an
\* activity and no start time succeeds, and the stored fact starts "now".
C7_AddFactWithoutStartSucceeds ==
    (/\ last.op = "add_fact"
     /\ last.given.activity # <<>>
     /\ last.given.start_time = NoTime) =>
        /\ last.outcome = "ok"
        /\ get_fact(last.ret).start_time = last.at

\* C7, amended: the default-to-now fallback cannot be disabled.  add_fact
\* of a fact with an activity and no start time never fails for the missing
\* start time: it sets the start time of the fact to "now" and hands it to
\* the record store.  If the record store accepts the fact so completed, the
\* call succeeds and the stored fact starts "now"; if it refuses it (its end
\* time is before "now"), the validation error of the record store is raised
\* and nothing is stored.
C7_AddFactDefaultsToNow ==
    (/\ last.op = "add_fact"
     /\ last.given.activity # <<>>
     /\ last.given.start_time = NoTime) =>
        /\ last.at \in Times
        /\ last.fact = [last.given EXCEPT !.start_time = last.at]
        /\ last.db_calls = <<"add_fact">>
        /\ last.reason # "Missing start time"
        /\ IF db_check_reason([last.given EXCEPT !.start_time = last.at], NoTime) = ""
           THEN /\ last.outcome = "ok"
                /\ last.ret \in DOMAIN db.facts \ last.before
                /\ get_fact(last.ret).start_time = last.at
           ELSE /\ last.outcome = "FactError"
                /\ last.given.end_time \in Times /\ last.given.end_time < last.at
                /\ DOMAIN db.facts = last.before

C7_Witness ==
    /\ last.op = "add_fact"
    /\ last.given.activity # <<>>
    /\ last.given.start_time = NoTime
    /\ last.outcome = "ok"
    /\ last.at = 2
    /\ get_fact(last.ret).start_time = 2

\* C8: add_fact of a fact without an activity fails with the assertion
\* before anything else happens: the record store is not called and does not
\* change, the start time of the fact is as passed, nothing is published.
C8_AddFactWithoutActivity ==
    [][(last'.op = "add_fact" /\ last'.given.activity = <<>>) =>
          /\ last'.outcome = "AssertionError"
          /\ last'.db_calls = <<>>
          /\ db' = db
          /\ last'.fact = last'.given
          /\ last'.emitted = <<>>
          /\ last'.delivered = <<>>]_vars

C8_Witness ==
    /\ last.op = "add_fact"
    /\ last.given.activity = <<>>
    /\ last.given.start_time = NoTime
    /\ last.outcome = "AssertionError"
    /\ last.fact.start_time = NoTime
    /\ handlers # <<>>
    /\ db.facts # EmptyTable

\* C9: check_fact of a fact without a start time fails with "Missing start
\* time" and does not consult the record store; otherwise it succeeds iff the
\* check of the record store succeeds, and a failure of that check reaches
\* the caller as the same error with the same reason.
C9_CheckFact ==
    last.op = "check_fact" =>
        IF last.given.start_time = NoTime
        THEN /\ last.outcome = "FactError"
             /\ last.reason = "Missing start time"
             /\ last.db_calls = <<>>
        ELSE LET r == db_check_fact(db, last.given, last.default_day)
             IN  /\ last.db_calls = <<"check_fact">>
                 /\ (last.outcome = "ok") <=> (r.error = "")
                 /\ r.error # "" => last.outcome = r.error /\ last.reason = r.reason

C9_Witness ==
    /\ last.op = "check_fact"
    /\ last.given.start_time = 2 /\ last.given.end_time = 1
    /\ last.outcome = "FactError"
    /\ last.reason = "Duration would be negative"
    /\ last.db_calls = <<"check_fact">>

(***************************************************************************)
(* Searching (under SpecSearch).                                           *)
(***************************************************************************)
\* positions a and b enclose an OR-group of q: commas, or the ends of q,
\* with no comma between them
IsGroup(q, a, b) ==
    /\ a < b
    /\ a = 0 \/ q[a] = ","
    /\ b = Len(q) + 1 \/ q[b] = ","
    /\ \A i \in (a + 1)..(b - 1) : q[i] # ","

\* q[c..d] is an AND-term of the group enclosed by a and b: a longest run
\* without whitespace
IsTerm(q, a, b, c, d) ==
    /\ a < c /\ c <= d /\ d < b
    /\ \A i \in c..d : q[i] # " "
    /\ c = a + 1 \/ q[c - 1] = " "
    /\ d = b - 1 \/ q[d + 1] = " "

\* the term occurs, whatever the case, in a tag label, the category, the
\* activity or the description
Occurs(fact, term) ==
    \E text \in fact.tags \cup {fact.category, fact.activity, fact.description} :
        \E i \in 0..(Len(text) - Len(term)) :
            \A j \in 1..Len(term) : lower_char(text[i + j]) = lower_char(term[j])

QueryMatches(q, fact) ==
    \E a \in 0..Len(q), b \in 1..(Len(q) + 1) :
        /\ IsGroup(q, a, b)
        /\ \A c \in 1..Len(q), d \in 1..Len(q) :
              IsTerm(q, a, b, c, d) => Occurs(fact, SubSeq(q, c, d))

InRange == {id \in DOMAIN db.facts : intersects(db.facts[id], request)}

Found == {last.rows[i] : i \in 1..Len(last.rows)}

\* C5: get_facts returns a fact of the range iff some comma-separated group
\* of the search terms has each of its whitespace-separated terms occurring,
\* whatever the case, in the tags, category, activity or description of the
\* fact; the empty query returns every fact of the range; "w p,u" returns
\* the facts with (w and p) or u.
C5_SearchTerms ==
    last.op = "get_facts" =>
        /\ Found = {id \in InRange : QueryMatches(request.search_terms, db.facts[id])}
        /\ request.search_terms = <<>> => Found = InRange
        /\ request.search_terms = <<"w", " ", "p", ",", "u">> =>
              Found = {id \in InRange :
                          \/ Occurs(db.facts[id], <<"w">>) /\ Occurs(db.facts[id], <<"p">>)
                          \/ Occurs(db.facts[id], <<"u">>)}

C5_Witness ==
    /\ last.op = "get_facts"
    /\ request = [start |-> 1, end |-> NoTime, search_terms |-> <<"W", " ", "p", ",", "u">>]
    /\ last.rows = <<2, 3, 4>>

(***************************************************************************)
(* Tags (under SpecTags).                                                  *)
(***************************************************************************)
RowIds(rows) == [i \in 1..Len(rows) |-> rows[i].id]

\* C6: the second of two consecutive get_tag_ids calls with the same labels
\* returns the identifiers of the first and creates no tag; after either
\* call each label has its tag, returned in the order of the labels, and the
\* tag is not deleted, also when it was soft-deleted before.
C6_GetTagIdsIdempotent ==
    last.op = "get_tag_ids" =>
        /\ Len(last.rows) = Len(last.labels)
        /\ \A i \in 1..Len(last.labels) :
              /\ last.rows[i].id \in DOMAIN db.tags
              /\ lower(db.tags[last.rows[i].id].name) = lower(last.labels[i])
              /\ ~db.tags[last.rows[i].id].deleted
        /\ (prev_tag_ids.called /\ prev_tag_ids.labels = last.labels) =>
              /\ RowIds(last.rows) = RowIds(prev_tag_ids.rows)
              /\ DOMAIN db.tags = DOMAIN prev_tag_ids.tags
              /\ last.emitted = <<>>

C6_Witness ==
    /\ last.op = "get_tag_ids"
    /\ prev_tag_ids.called
    /\ prev_tag_ids.labels = <<<<"w">>>>
    /\ last.labels = <<<<"w">>>>
    /\ RowIds(last.rows) = <<2>>
    /\ RowIds(prev_tag_ids.rows) = <<2>>
    /\ db.tags[2].name = <<"W">>
    /\ ~db.tags[2].deleted

(***************************************************************************)
(* Categories and activities (under SpecActivities).                       *)
(***************************************************************************)
ActivitiesOf(category_id) ==
    {id \in DOMAIN db.activities : db.activities[id].category_id = category_id}

\* C10: get_category_activities() without an argument returns exactly the
\* activities that have no category, and get_category_activities(c) for the
\* identifier c of a category exactly the activities of that category.
C10_CategoryActivities ==
    last.op = "get_category_activities" =>
        /\ Len(last.rows) = Cardinality({last.rows[i].id : i \in 1..Len(last.rows)})
        /\ last.arg = Absent =>
              {last.rows[i].id : i \in 1..Len(last.rows)} = ActivitiesOf(Uncategorized)
        /\ \A c \in DOMAIN db.categories :
              last.arg = Some(c) =>
                  {last.rows[i].id : i \in 1..Len(last.rows)} = ActivitiesOf(c)

C10_Witness ==
    /\ last.op = "get_category_activities"
    /\ last.arg = Absent
    /\ Len(last.rows) = 1
    /\ ActivitiesOf(Uncategorized) # {}
    /\ \E c \in DOMAIN db.categories : ActivitiesOf(c) # {}

(***************************************************************************)
(* Further properties of the settings store.                               *)
(***************************************************************************)
\* C11: a store constructed over a readable file holds every key of the file
\* with the value of the file, and each key of the schema the file lacks
\* with its default; no value of the file is replaced by a default.
C11_MergeOnLoad ==
    (conf_last.op = "__init__" /\ plist.exists /\ plist.readable) =>
        /\ DOMAIN settings = DOMAIN plist.content \cup Schema
        /\ \A k \in DOMAIN plist.content : settings[k] = plist.content[k]
        /\ \A k \in Schema \ DOMAIN plist.content : settings[k] = _defaults[k]

C11_Witness ==
    /\ conf_last.op = "__init__"
    /\ plist.exists /\ plist.readable
    /\ DOMAIN plist.content = {"day-start-minutes", "window-width"}
    /\ settings["day-start-minutes"] = int(270)
    /\ settings["window-width"] = str("/tmp/test")
    /\ settings["last-report-folder"] = str("")

C13_SetNeverRejects ==
    conf_last.op = "set" =>
        /\ conf_last.ret
        /\ conf_last.key \in DOMAIN settings
        /\ settings[conf_last.key] = conf_last.value
        /\ Len(changed) = 1
        /\ changed[1].key = conf_last.key
        /\ changed[1].value = conf_last.value

C13_Witness ==
    /\ conf_last.op = "set"
    /\ conf_last.key = "day-start-minutes"
    /\ conf_last.value = str("/tmp/test")
    /\ conf_last.warned
    /\ conf_last.ret
    /\ settings["day-start-minutes"] = str("/tmp/test")

\* C14 as stated: for each key of the schema, the integer one and the string
\* one, set logs a type-mismatch warning for every value whose type is not
\* the type of the default of the key.
C14_EveryMismatchLogged ==
    (/\ conf_last.op = "set"
     /\ conf_last.key \in Schema
     /\ conf_last.value.type # _defaults[conf_last.key].type) => conf_last.warned

\* C14, amended: set checks the type of the value against the type of the
\* default only for a key whose default is not the empty string: for
\* day-start-minutes every value that is no integer is logged as a mismatch;
\* for last-report-folder, whose default is the empty string, and for a key
\* outside the schema, nothing is logged.
C14_MismatchLoggedUnlessEmptyDefault ==
    conf_last.op = "set" =>
        (conf_last.warned <=>
            /\ conf_last.key = "day-start-minutes"
            /\ conf_last.value.type # "int")

C14_Witness ==
    /\ conf_last.op = "set"
    /\ conf_last.key = "day-start-minutes"
    /\ conf_last.value = str("")
    /\ conf_last.warned

\* C15: bind is one-way.  bind(key, target) gives the target the value get
\* returns for key and touches no other target; every set(key, v) after it
\* gives v to each target bound to key and leaves every other target as it
\* is, so a target holds the value of the latest set of its key, or the
\* value it got at bind time; a change of the target changes neither the
\* settings map nor the file and emits nothing.
C15_BindOneWay ==
    [][/\ conf_last'.op = "bind" =>
              /\ props'[conf_last'.target] = get(conf_last'.key, None)
              /\ \A t \in Targets \ {conf_last'.target} : props'[t] = props[t]
       /\ conf_last'.op = "set" =>
              \A t \in Targets :
                 props'[t] = IF \E i \in 1..Len(bound) :
                                    bound[i].target = t /\ bound[i].key = conf_last'.key
                             THEN conf_last'.value
                             ELSE props[t]
       /\ conf_last'.op = "set_property" =>
              /\ props'[conf_last'.target] = conf_last'.value
              /\ settings' = settings
              /\ plist' = plist
              /\ changed' = <<>>]_vars

C15_Witness ==
    /\ bound = <<[key |-> "day-start-minutes", target |-> "a"],
                 [key |-> "window-width", target |-> "b"]>>
    /\ conf_last.op = "set"
    /\ conf_last.key = "day-start-minutes"
    /\ conf_last.value = int(270)
    /\ props["a"] = int(270)
    /\ props["b"] = str("")

\* what get(key) returns to a handler of the emission e
Observed(e) == get_from(e.settings, e.key, None)

C19_UnknownKeysRoundTrip ==
    [][/\ (conf_last'.op = "__init__" /\ plist'.exists /\ plist'.readable) =>
              \A k \in DOMAIN plist'.content \ Schema :
                 k \in DOMAIN settings' /\ settings'[k] = plist'.content[k]
       /\ conf_last'.op = "set" =>
              /\ \A k \in DOMAIN settings \ (Schema \cup {conf_last'.key}) :
                    /\ k \in DOMAIN settings' /\ settings'[k] = settings[k]
                    /\ conf_last'.written =>
                          k \in DOMAIN plist'.content /\ plist'.content[k] = settings[k]
              /\ conf_last'.written =>
                    /\ plist'.exists /\ plist'.readable
                    /\ plist'.content = settings'
                    /\ _load_settings(plist') = settings']_vars

C19_Witness ==
    /\ conf_last.op = "set"
    /\ conf_last.key = "day-start-minutes"
    /\ conf_last.written
    /\ last_set["window-width"] = Unset
    /\ "window-width" \in DOMAIN plist.content
    /\ plist.content["window-width"] = int(270)
    /\ settings["window-width"] = int(270)

\* C20: when the write of the file fails during set(key, value), set logs
\* and goes on: the map holds the new value and get(key) returns it,
\* changed(key, value) is emitted, set returns True, and the file is as it
\* was before the call.
C20_FailedWriteKeepsFile ==
    [][(conf_last'.op = "set" /\ ~conf_last'.written) =>
          /\ conf_last'.ret
          /\ settings'[conf_last'.key] = conf_last'.value
          /\ get_from(settings', conf_last'.key, None) = conf_last'.value
          /\ Len(changed') = 1
          /\ changed'[1].key = conf_last'.key /\ changed'[1].value = conf_last'.value
          /\ plist' = plist]_vars

(***************************************************************************)
(* Properties of the signals of Storage (under SpecSignals).               *)
(***************************************************************************)
\* the handlers connected to topic, in connect order
Subscribers(topic) ==
    SelectSeq([i \in 1..Len(handlers) |-> i], LAMBDA i : handlers[i] = topic)

\* who was called for what, delivery by delivery
Calls(log) == [i \in 1..Len(log) |-> <<log[i].handler, log[i].topic>>]

RECURSIVE Expected(_)
Expected(topics) ==
    IF topics = <<>> THEN <<>>
    ELSE LET t == Head(topics)
             subscribers == Subscribers(t)
         IN  [i \in 1..Len(subscribers) |-> <<subscribers[i], t>>] \o Expected(Tail(topics))

\* C16: each signal a call emits, of the four of Storage, is delivered to
\* every handler connected to that signal, once each, in connect order, and
\* to no other handler; a handler that raises does not keep the handlers
\* connected after it from being called.
C16_FanOutInOrder ==
    LET outer == SelectSeq(last.delivered, LAMBDA e : e.level = 1)
    IN  /\ \A i \in 1..Len(last.emitted) : last.emitted[i] \in Topics
        /\ last.op = "toggle" => last.emitted = <<"toggle-called">>
        /\ Calls(outer) = Expected(last.emitted)

C16_Witness ==
    /\ last.op = "toggle"
    /\ handlers = <<"toggle-called", "toggle-called">>
    /\ reactions = <<"raises", "returns">>
    /\ Len(last.delivered) = 2
    /\ last.delivered[1].raised /\ last.delivered[1].handler = 1
    /\ last.delivered[2].handler = 2

\* the deliveries of emission e
Emission(e) == SelectSeq(last.delivered, LAMBDA x : x.emission = e)

\* C17: a handler that calls remove_fact while a signal is being delivered
\* has its own facts-changed emission delivered, before it returns, to every
\* handler of facts-changed; the call under way ends, and each of its
\* emissions, the outer and the nested ones, reaches every handler of its
\* signal once, in connect order.
C17_ReentrantDelivery ==
    LET log == last.delivered
    IN  /\ \A i \in 1..Len(log) :
              (reactions[log[i].handler] = "removes" /\ log[i].queryable # {}) =>
                  /\ i < Len(log)
                  /\ log[i + 1].level = log[i].level + 1
                  /\ log[i + 1].topic = "facts-changed"
                  /\ \A j \in 1..i : log[j].emission # log[i + 1].emission
        /\ \A i \in 1..Len(log) :
              LET deliveries == Emission(log[i].emission)
              IN  /\ Calls(deliveries) = Expected(<<log[i].topic>>)
                  /\ \A j \in 1..Len(deliveries) : deliveries[j].level = log[i].level

C17_Witness ==
    /\ last.op = "add_fact" /\ last.outcome = "ok"
    /\ handlers = <<"facts-changed", "facts-changed">>
    /\ reactions = <<"removes", "returns">>
    /\ Len(last.delivered) = 4
    /\ Calls(last.delivered) = <<<<1, "facts-changed">>, <<1, "facts-changed">>,
                                 <<2, "facts-changed">>, <<2, "facts-changed">>>>
    /\ last.delivered[1].level = 1 /\ last.delivered[2].level = 2
    /\ last.delivered[3].level = 2 /\ last.delivered[4].level = 1
    /\ db.facts = EmptyTable

(***************************************************************************)
(* The start of the day (under SpecDayStart).                              *)
(***************************************************************************)
\* C21 as stated: once integers have been set under day-start-minutes, with
\* v the one stored, day_start is the time of day of hours v div 60 and
\* minutes v mod 60, hours within 0..23 and minutes within 0..59.
C21_DayStartOfAnyInteger ==
    last_set["day-start-minutes"].type = "int" =>
        LET v == settings["day-start-minutes"].int
        IN  /\ day_start.ok
            /\ day_start.hours = v \div 60 /\ day_start.minutes = v % 60
            /\ day_start.hours \in 0..23 /\ day_start.minutes \in 0..59

\* C21, amended: once integers have been set under day-start-minutes, with
\* v the one stored: if v is within 0..1439, day_start is the time of day of
\* hours v div 60 and minutes v mod 60, hours within 0..23 and minutes
\* within 0..59; if v is negative or 1440 or more, set has stored it all the
\* same and day_start raises ValueError.
C21_DayStartWithinADay ==
    last_set["day-start-minutes"].type = "int" =>
        LET v == settings["day-start-minutes"].int
        IN  /\ settings["day-start-minutes"] = last_set["day-start-minutes"]
            /\ IF v \in 0..1439
               THEN /\ day_start.ok
                    /\ day_start.hours = v \div 60 /\ day_start.minutes = v % 60
                    /\ day_start.hours \in 0..23 /\ day_start.minutes \in 0..59
               ELSE ~day_start.ok

C21_Witness ==
    /\ conf_last.op = "set" /\ conf_last.key = "last-report-folder"
    /\ last_set["day-start-minutes"] = int(1439)
    /\ day_start = [ok |-> TRUE, hours |-> 23, minutes |-> 59]
====
